---- MODULE Spec2Model ----
(***************************************************************************)
(* Model of benchmark_hybrid_parallelism.py: the corpus sampler            *)
(* (get_files), the file reader (read_file), the four strategy runs        *)
(* (A per-item Rust, B sequential-read batch, C hybrid parallel-read       *)
(* batch, D per-item C) and main's report, including the uncaught          *)
(* ZeroDivisionError paths, which end the process with exit code 1.        *)
(*                                                                         *)
(* Time is a discrete clock `now` (time.perf_counter); it may advance      *)
(* between any two steps of a run, or not at all, so a measured span is    *)
(* any value in 0..MaxClock.                                               *)
(***************************************************************************)
EXTENDS Integers, Sequences, FiniteSets, TLC

\* ---------------------------------------------------------------- bounds
MaxEntries == 2     \* directory entries met by os.walk
MaxThreads == 2     \* largest cpu_count()
MaxClock == 1       \* clock ticks that may elapse within one strategy run
MaxWalk == 3        \* directory entries in SamplerSpec
MaxSize == 2        \* largest st_size in SamplerSpec
MaxArg == 3         \* largest max_files handed to get_files in SamplerSpec

\* ------------------------------------------------------ program constants
DefaultMaxFiles == 1000   \* get_files(directory, max_files=1000)
Micro == 1000000          \* the 1e6 factor of the latency figures

Strategies == {"A", "B", "C", "D"}
PerItem == {"A", "D"}
Batch == {"B", "C"}
Pooled == {"A", "C", "D"}

\* b'' : what read_file returns for an empty or unreadable file
Empty == <<>>

VARIABLES
    hasArg,         \* len(sys.argv) >= 2
    dirExists,      \* directory.exists()
    HAS_RUST,       \* import of xxhash_rust succeeded
    HAS_XXHASH,     \* import of xxhash succeeded
    directory,      \* the entries os.walk meets, in walk order
    cpu,            \* cpu_count()
    max_files,      \* the max_files argument of get_files
    pc,             \* position of main
    cur,            \* the strategy main is at
    files,          \* the sampled corpus: <<path, size>> records
    files2,         \* a second sample of the same directory (SamplerSpec)
    total_size,     \* sum of the corpus's stat sizes
    exit_code,      \* -1 while running, then the process's exit code
    error,          \* the uncaught exception, or "none"
    set_calls,      \* calls of set_rayon_threads so far
    rayon_threads,  \* the process-wide rayon setting (0: the library default)
    batch_calls,    \* calls of batch_xxh64 so far
    now,            \* time.perf_counter()
    start,          \* start / read_start of the current run
    process_start,  \* process_start of the current batch run
    read_time,      \* read_time of the current batch run
    process_time,   \* process_time of the current batch run
    total_time,     \* the local total_time of the current run
    idx,            \* B's position in its sequential read loop
    data_list,      \* data_list of the current batch run
    tasks,          \* the thread pool's futures, in submission order
    order,          \* the indices of the futures, in completion order
    hashed,         \* per strategy: <<items, bytes>> handed to the hashing primitive
    ran,            \* the strategies whose run has returned
    times,          \* per strategy: the time value its run returned
    lats,           \* per strategy: the latency list its run returned
    reported,       \* the report lines printed: strategies, then "summary"
    verdict         \* the strategy the analysis names as best

inputs == <<hasArg, dirExists, HAS_RUST, HAS_XXHASH, directory, cpu, max_files>>
mainv == <<pc, cur, files, files2, total_size, exit_code, error>>
rayonv == <<set_calls, rayon_threads, batch_calls>>
clockv == <<now, start, process_start, read_time, process_time, total_time>>
runv == <<idx, data_list, tasks, order, hashed>>
outv == <<ran, times, lats, reported, verdict>>
vars == <<inputs, mainv, rayonv, clockv, runv, outv>>

\* ------------------------------------------------------------ directories
\* An entry of the walk: whether stat() succeeds, its st_size, and whether
\* open()/read() succeeds. Its path is its position in the walk.
Entries(sizes) ==
    {[statable |-> FALSE, size |-> 0, readable |-> FALSE]}
    \cup {[statable |-> TRUE, size |-> 0, readable |-> TRUE]}
    \cup {[statable |-> TRUE, size |-> s, readable |-> r] :
            s \in sizes, r \in BOOLEAN}

\* The runs tell an empty payload from a non-empty one and nothing else, so
\* the directories main is run on hold files of 0 bytes and of 1 byte.
Directories == UNION {[1..n -> Entries({1})] : n \in 0..MaxEntries}

Min(a, b) == IF a < b THEN a ELSE b

\* ---------------------------------------------------------------- sampler
\* The walk of get_files: one (filepath, size) per entry whose stat()
\* succeeds, in walk order; an entry whose stat() raises is skipped.
RECURSIVE Walk(_, _)
Walk(dir, k) ==
    IF k > Len(dir) THEN <<>>
    ELSE IF dir[k].statable
         THEN <<[path |-> k, size |-> dir[k].size]>> \o Walk(dir, k + 1)
         ELSE Walk(dir, k + 1)

\* x put into the sorted sequence s behind every element whose key is not
\* larger: list.sort is stable.
Insert(x, s) ==
    LET later == {k \in 1..Len(s) : s[k].size > x.size}
        at == IF later = {} THEN Len(s) + 1
              ELSE CHOOSE k \in later : \A j \in later : k <= j
    IN  SubSeq(s, 1, at - 1) \o <<x>> \o SubSeq(s, at, Len(s))

\* files.sort(key=lambda x: x[1])
RECURSIVE SortBySize(_)
SortBySize(s) ==
    IF s = <<>> THEN <<>>
    ELSE Insert(s[Len(s)], SortBySize(SubSeq(s, 1, Len(s) - 1)))

\* files[:n], for n >= 0
Take(s, n) == SubSeq(s, 1, Min(n, Len(s)))

\* A sampler that truncates the walk before sorting it.
get_files_truncate_first(dir, n) == SortBySize(Take(Walk(dir, 1), n))

get_files(dir, n) == Take(SortBySize(Walk(dir, 1)), n)

RECURSIVE SumSizes(_)
SumSizes(s) == IF s = <<>> THEN 0 ELSE s[1].size + SumSizes(Tail(s))

\* read_file(path): the file's bytes, b'' on any exception. A payload is
\* modelled by the path it was read from and its length.
read_file(path) ==
    IF directory[path].readable /\ directory[path].size > 0
    THEN <<path, directory[path].size>>
    ELSE Empty

\* len(data)
PayloadLen(data) == IF data = Empty THEN 0 ELSE data[2]

\* ------------------------------------------------------------------- main
Exit(code, exc) ==
    /\ pc' = "exit"
    /\ exit_code' = code
    /\ error' = exc

\* if len(sys.argv) < 2: usage, sys.exit(1)
CheckArgs ==
    /\ pc = "main"
    /\ IF hasArg
       THEN pc' = "check_dir" /\ UNCHANGED <<exit_code, error>>
       ELSE Exit(1, "none")
    /\ UNCHANGED <<inputs, cur, files, files2, total_size, rayonv, clockv, runv, outv>>

\* if not directory.exists(): sys.exit(1)
CheckDir ==
    /\ pc = "check_dir"
    /\ IF dirExists
       THEN pc' = "scan" /\ UNCHANGED <<exit_code, error>>
       ELSE Exit(1, "none")
    /\ UNCHANGED <<inputs, cur, files, files2, total_size, rayonv, clockv, runv, outv>>

\* files = get_files(directory); total_size = sum(...); the average file
\* size line divides by len(files): an uncaught ZeroDivisionError ends the
\* process with exit code 1.
Scan ==
    /\ pc = "scan"
    /\ files' = get_files(directory, max_files)
    /\ total_size' = SumSizes(files')
    /\ IF Len(files') = 0
       THEN Exit(1, "ZeroDivisionError")
       ELSE pc' = "configure" /\ UNCHANGED <<exit_code, error>>
    /\ UNCHANGED <<inputs, cur, files2, rayonv, clockv, runv, outv>>

\* A harness that never configures rayon.
ConfigureRayonSkipped ==
    /\ pc = "configure"
    /\ pc' = "check_libs"
    /\ UNCHANGED <<inputs, cur, files, files2, total_size, exit_code, error,
                   rayonv, clockv, runv, outv>>

\* if HAS_RUST: try: set_rayon_threads(num_threads) except: pass
\* The call is best effort: it either takes effect or raises and is swallowed.
ConfigureRayon ==
    /\ pc = "configure"
    /\ pc' = "check_libs"
    /\ IF HAS_RUST
       THEN /\ set_calls' = set_calls + 1
            /\ \E ok \in BOOLEAN :
                 rayon_threads' = IF ok THEN cpu ELSE rayon_threads
       ELSE UNCHANGED <<set_calls, rayon_threads>>
    /\ UNCHANGED <<inputs, cur, files, files2, total_size, exit_code, error,
                   batch_calls, clockv, runv, outv>>

\* if not HAS_RUST or not HAS_XXHASH: "Both libraries required", sys.exit(1)
CheckLibs ==
    /\ pc = "check_libs"
    /\ IF ~HAS_RUST \/ ~HAS_XXHASH
       THEN Exit(1, "none") /\ UNCHANGED cur
       ELSE pc' = "call" /\ cur' = "A" /\ UNCHANGED <<exit_code, error>>
    /\ UNCHANGED <<inputs, files, files2, total_size, rayonv, clockv, runv, outv>>

\* --------------------------------------------------------- strategy runs
\* The guard each strategy function opens with.
Available(s) == IF s = "D" THEN HAS_XXHASH ELSE HAS_RUST

\* xxh64(data, 0) and batch_xxh64(data_list): one digest per payload handed
\* in, in input order.
xxh64(data) == <<"xxh64", data>>

batch_xxh64(list) == [i \in 1..Len(list) |-> xxh64(list[i])]

Queued == [st |-> "queued", t |-> 0, res |-> Empty]

Active(ts) == {j \in 1..Len(ts) : ts[j].st \in {"reading", "hashing"}}

Return(s, time, latencies) ==
    /\ ran' = ran \cup {s}
    /\ times' = [times EXCEPT ![s] = time]
    /\ lats' = [lats EXCEPT ![s] = latencies]
    /\ pc' = "print"

\* The call of a strategy function up to its first timed statement: the
\* availability guard (return 0, []), then start / read_start and, for the
\* pooled strategies, executor.map's submission of one future per file.
\* perf_counter's origin is arbitrary and a run only takes differences of
\* readings made within it, so each run's readings are taken from 0.
Call ==
    /\ pc = "call"
    /\ IF ~Available(cur)
       THEN /\ Return(cur, 0, <<>>)
            /\ UNCHANGED <<now, start, idx, data_list, tasks, order>>
       ELSE /\ now' = 0
            /\ start' = now'
            /\ pc' = IF cur = "B" THEN "read" ELSE "pool"
            /\ idx' = 1
            /\ data_list' = <<>>
            /\ tasks' = IF cur \in Pooled
                        THEN [i \in 1..Len(files) |-> Queued] ELSE <<>>
            /\ order' = <<>>
            /\ UNCHANGED <<ran, times, lats>>
    /\ UNCHANGED <<inputs, cur, files, files2, total_size, exit_code, error, rayonv,
                   process_start, read_time, process_time, total_time,
                   hashed, reported, verdict>>

\* time.perf_counter() advances while a run is in progress.
Tick ==
    /\ pc \in {"pool", "read", "batch"}
    /\ now - start < MaxClock
    /\ now' = now + 1
    /\ UNCHANGED <<inputs, mainv, rayonv, start, process_start, read_time,
                   process_time, total_time, runv, outv>>

\* A pool thread takes the next future off the executor's FIFO work queue;
\* at most max_workers = cpu_count() futures are being worked on.
TaskStart(i) ==
    /\ pc = "pool"
    /\ i \in 1..Len(tasks)
    /\ tasks[i].st = "queued"
    /\ \A j \in 1..(i - 1) : tasks[j].st # "queued"
    /\ Cardinality(Active(tasks)) < cpu
    /\ tasks' = [tasks EXCEPT ![i].st = "reading"]
    /\ UNCHANGED <<inputs, mainv, rayonv, clockv, idx, data_list, order, hashed, outv>>

\* A worker that hashes every payload, empty ones too.
SkipsHashNever(data) == FALSE

\* if not data: return 0
SkipsHash(data) == data = Empty

AddHashed(s, n, bytes) ==
    [hashed EXCEPT ![s] = <<hashed[s][1] + n, hashed[s][2] + bytes>>]

\* read_file returns in a worker. read_worker (C) returns the payload;
\* worker (A, D) returns 0 for an empty payload and otherwise takes its
\* start time and calls the hashing primitive.
TaskReadDone(i) ==
    /\ pc = "pool"
    /\ i \in 1..Len(tasks)
    /\ tasks[i].st = "reading"
    /\ LET data == read_file(files[i].path) IN
       IF cur = "C"
       THEN /\ tasks' = [tasks EXCEPT ![i] = [st |-> "done", t |-> 0, res |-> data]]
            /\ order' = Append(order, i)
            /\ UNCHANGED hashed
       ELSE IF SkipsHash(data)
       THEN /\ tasks' = [tasks EXCEPT ![i] =
                           [st |-> "done", t |-> 0,
                            res |-> [of |-> files[i].path, us |-> 0]]]
            /\ order' = Append(order, i)
            /\ UNCHANGED hashed
       ELSE /\ tasks' = [tasks EXCEPT ![i] = [st |-> "hashing", t |-> now, res |-> Empty]]
            /\ hashed' = AddHashed(cur, 1, PayloadLen(data))
            /\ UNCHANGED order
    /\ UNCHANGED <<inputs, mainv, rayonv, clockv, idx, data_list, outv>>

\* xxh64 / xxhash.xxh64_digest returns in a worker:
\* return (time.perf_counter() - start) * 1e6
TaskHashDone(i) ==
    /\ pc = "pool"
    /\ i \in 1..Len(tasks)
    /\ tasks[i].st = "hashing"
    /\ tasks' = [tasks EXCEPT ![i] =
                   [st |-> "done", t |-> 0,
                    res |-> [of |-> files[i].path, us |-> (now - tasks[i].t) * Micro]]]
    /\ order' = Append(order, i)
    /\ UNCHANGED <<inputs, mainv, rayonv, clockv, idx, data_list, hashed, outv>>

\* A pool whose results are taken in completion order.
MapResultsAsCompleted(ts, ord) == [k \in 1..Len(ord) |-> ts[ord[k]].res]

\* list(executor.map(...)): the futures' results in submission order.
MapResults(ts, ord) == [i \in 1..Len(ts) |-> ts[i].res]

\* A join that returns once any one future is done.
JoinedAny(ts) == ts = <<>> \/ \E i \in 1..Len(ts) : ts[i].st = "done"

\* list(...) over the map and the executor's shutdown at the end of the
\* with block: every future is done.
Joined(ts) == \A i \in 1..Len(ts) : ts[i].st = "done"

\* A filter that keeps everything.
FilterEmptyKeepsAll(list) == list

\* [d for d in data_list if d]
FilterEmpty(list) == SelectSeq(list, LAMBDA d : d # Empty)

RECURSIVE SumLen(_)
SumLen(list) == IF list = <<>> THEN 0 ELSE PayloadLen(list[1]) + SumLen(Tail(list))

\* A, D: the pool is joined; total_time = time.perf_counter() - start;
\* return total_time, latencies
GatherPerItem ==
    /\ pc = "pool"
    /\ cur \in PerItem
    /\ Joined(tasks)
    /\ total_time' = now - start
    /\ Return(cur, total_time', MapResults(tasks, order))
    /\ tasks' = <<>>
    /\ order' = <<>>
    /\ UNCHANGED <<inputs, cur, files, files2, total_size, exit_code, error, rayonv,
                   now, start, process_start, read_time, process_time,
                   idx, data_list, hashed, reported, verdict>>

\* The batch call begins: process_start is taken and batch_xxh64 is entered.
EnterBatch(list) ==
    /\ read_time' = now - start
    /\ process_start' = now
    /\ data_list' = list
    /\ batch_calls' = batch_calls + 1
    /\ hashed' = AddHashed(cur, Len(list), SumLen(list))
    /\ pc' = "batch"

\* C: the read pool is joined, the empty payloads are filtered out, read_time
\* is taken and the batch call begins.
JoinReads ==
    /\ pc = "pool"
    /\ cur = "C"
    /\ Joined(tasks)
    /\ EnterBatch(FilterEmpty(MapResults(tasks, order)))
    /\ UNCHANGED <<inputs, cur, files, files2, total_size, exit_code, error,
                   set_calls, rayon_threads, now, start, process_time, total_time,
                   idx, tasks, order, outv>>

\* B: one turn of the sequential read loop.
ReadNext ==
    /\ pc = "read"
    /\ idx <= Len(files)
    /\ LET data == read_file(files[idx].path) IN
       data_list' = IF data # Empty THEN Append(data_list, data) ELSE data_list
    /\ idx' = idx + 1
    /\ UNCHANGED <<inputs, mainv, rayonv, clockv, tasks, order, hashed, outv>>

\* B: the read loop is over, read_time is taken and the batch call begins.
ReadsFinished ==
    /\ pc = "read"
    /\ idx > Len(files)
    /\ EnterBatch(data_list)
    /\ UNCHANGED <<inputs, cur, files, files2, total_size, exit_code, error,
                   set_calls, rayon_threads, now, start, process_time, total_time,
                   idx, tasks, order, outv>>

\* process_time * 1e6 / len(results), in whole microseconds
Synthetic(results, time) ==
    IF results = <<>> THEN <<>>
    ELSE [i \in 1..Len(results) |-> (time * Micro) \div Len(results)]

\* B, C: batch_xxh64 returns; process_time and total_time are taken and the
\* function returns process_time, latencies.
BatchReturn ==
    /\ pc = "batch"
    /\ LET results == batch_xxh64(data_list) IN
       /\ process_time' = now - process_start
       /\ total_time' = read_time + process_time'
       /\ Return(cur, process_time', Synthetic(results, process_time'))
    /\ tasks' = <<>>
    /\ order' = <<>>
    /\ UNCHANGED <<inputs, cur, files, files2, total_size, exit_code, error, rayonv,
                   now, start, process_start, read_time,
                   idx, data_list, hashed, reported, verdict>>

\* ----------------------------------------------------------------- report
Successor(s) == CASE s = "A" -> "B" [] s = "B" -> "C" [] s = "C" -> "D" [] OTHER -> "D"

\* total_size / t / 1e6 raises ZeroDivisionError for t = 0
Raises(t) == t = 0

\* main's lines for one strategy: total time, average latency (guarded by
\* `if latencies`), and the throughput, an unguarded division by the time.
ReportRun ==
    /\ pc = "print"
    /\ IF Raises(times[cur])
       THEN Exit(1, "ZeroDivisionError") /\ UNCHANGED <<cur, reported>>
       ELSE /\ reported' = reported \cup {cur}
            /\ pc' = IF cur = "D" THEN "summary" ELSE "call"
            /\ cur' = Successor(cur)
            /\ UNCHANGED <<exit_code, error>>
    /\ UNCHANGED <<inputs, files, files2, total_size, rayonv, clockv, runv,
                   ran, times, lats, verdict>>

Fastest == CHOOSE t \in {times[s] : s \in Strategies} :
               \A s \in Strategies : t <= times[s]

\* The if / elif chain of the analysis.
Best ==
    IF times["C"] = Fastest THEN "C"
    ELSE IF times["A"] = Fastest THEN "A"
    ELSE IF times["D"] = Fastest THEN "D"
    ELSE "B"

\* The summary table (it divides by each strategy's time again), the
\* analysis, and the end of main: exit code 0.
Summary ==
    /\ pc = "summary"
    /\ IF \E s \in Strategies : Raises(times[s])
       THEN Exit(1, "ZeroDivisionError") /\ UNCHANGED <<reported, verdict>>
       ELSE /\ reported' = reported \cup {"summary"}
            /\ verdict' = Best
            /\ Exit(0, "none")
    /\ UNCHANGED <<inputs, cur, files, files2, total_size, rayonv, clockv, runv,
                   ran, times, lats>>

\* ---------------------------------------------------------- specification
Start ==
    /\ cur = "A"
    /\ files = <<>>
    /\ files2 = <<>>
    /\ total_size = 0
    /\ exit_code = -1
    /\ error = "none"
    /\ set_calls = 0
    /\ rayon_threads = 0
    /\ batch_calls = 0
    /\ now = 0
    /\ start = 0
    /\ process_start = 0
    /\ read_time = 0
    /\ process_time = 0
    /\ total_time = 0
    /\ idx = 1
    /\ data_list = <<>>
    /\ tasks = <<>>
    /\ order = <<>>
    /\ hashed = [s \in Strategies |-> <<0, 0>>]
    /\ ran = {}
    /\ times = [s \in Strategies |-> 0]
    /\ lats = [s \in Strategies |-> <<>>]
    /\ reported = {}
    /\ verdict = "none"

Init ==
    /\ hasArg \in BOOLEAN
    /\ dirExists \in BOOLEAN
    /\ HAS_RUST \in BOOLEAN
    /\ HAS_XXHASH \in BOOLEAN
    /\ directory \in Directories
    /\ cpu \in 1..MaxThreads
    /\ max_files = DefaultMaxFiles
    /\ pc = "main"
    /\ Start

Next ==
    \/ CheckArgs
    \/ CheckDir
    \/ Scan
    \/ ConfigureRayon
    \/ CheckLibs
    \/ Call
    \/ Tick
    \/ \E i \in 1..MaxEntries : TaskStart(i)
    \/ \E i \in 1..MaxEntries : TaskReadDone(i)
    \/ \E i \in 1..MaxEntries : TaskHashDone(i)
    \/ GatherPerItem
    \/ JoinReads
    \/ ReadNext
    \/ ReadsFinished
    \/ BatchReturn
    \/ ReportRun
    \/ Summary

Spec == Init /\ [][Next]_vars

\* The sampler on its own: get_files called twice over one directory, with
\* any max_files.
WalkedDirectories == UNION {[1..n -> Entries(1..MaxSize)] : n \in 0..MaxWalk}

SamplerInit ==
    /\ hasArg = TRUE
    /\ dirExists = TRUE
    /\ HAS_RUST = TRUE
    /\ HAS_XXHASH = TRUE
    /\ directory \in WalkedDirectories
    /\ cpu = 1
    /\ max_files \in 0..MaxArg
    /\ pc = "sample"
    /\ Start

Sample ==
    /\ pc = "sample"
    /\ files' = get_files(directory, max_files)
    /\ pc' = "sampled"
    /\ UNCHANGED <<inputs, cur, files2, total_size, exit_code, error,
                   rayonv, clockv, runv, outv>>

SampleAgain ==
    /\ pc = "sampled"
    /\ files2' = get_files(directory, max_files)
    /\ pc' = "resampled"
    /\ UNCHANGED <<inputs, cur, files, total_size, exit_code, error,
                   rayonv, clockv, runv, outv>>

SamplerNext ==
    \/ Sample
    \/ SampleAgain

SamplerSpec == SamplerInit /\ [][SamplerNext]_vars

\* ----------------------------------------------------------------- claims
\* What the corpus holds, taken from the directory rather than from a run.
PayloadOf(i) == read_file(files[i].path)

NonEmptyItems == {i \in 1..Len(files) : PayloadOf(i) # Empty}

RECURSIVE NonEmptyFrom(_)
NonEmptyFrom(k) ==
    IF k > Len(files) THEN <<>>
    ELSE IF PayloadOf(k) # Empty THEN <<PayloadOf(k)>> \o NonEmptyFrom(k + 1)
    ELSE NonEmptyFrom(k + 1)

RECURSIVE BytesFrom(_)
BytesFrom(k) ==
    IF k > Len(files) THEN 0 ELSE PayloadLen(PayloadOf(k)) + BytesFrom(k + 1)

StatableEntries == {k \in 1..Len(directory) : directory[k].statable}

\* C1: for every strategy run, the time value the run returns (and the report
\* uses as its total time) is the run's read time plus its hash time. The
\* batch runs B and C take both spans; A and D take one wall-clock span
\* around reads and hashes together and have no separate spans to add up.
C1_ReturnedTimeIsReadPlusProcess ==
    (pc = "print" /\ cur \in Batch) => times[cur] = read_time + process_time

\* C2 as claimed: in no run is the hashing primitive at work while a file
\* read of the same run is still pending or in progress.
C2_NoHashWhileReadPending ==
    ~ \E i, j \in 1..Len(tasks) :
          /\ pc = "pool"
          /\ tasks[i].st = "hashing"
          /\ tasks[j].st \in {"queued", "reading"}

\* C2 as amended: in the batch runs B and C, every file read of the run has
\* completed when the batch hashing call is entered and while it is at work.
C2_BatchAfterAllReads ==
    pc = "batch" =>
        /\ cur = "B" => idx > Len(files)
        /\ cur = "C" => /\ Len(tasks) = Len(files)
                        /\ \A i \in 1..Len(tasks) : tasks[i].st = "done"

C2_Witness ==
    /\ pc = "batch"
    /\ cur = "C"
    /\ Len(files) = 2
    /\ now > start

\* C3 as claimed: when all four runs are over, the item count behind each
\* strategy's latency figure and the byte count each strategy hashed are the
\* same for all four.
C3_SameItemsAndBytes ==
    pc = "summary" =>
        \A s, t \in Strategies :
            /\ Len(lats[s]) = Len(lats[t])
            /\ hashed[s][2] = hashed[t][2]

\* C3 as amended: every run hands the hashing primitive the corpus's
\* non-empty payloads and so the same byte total; the latency list holds one
\* entry per corpus item for A and D and one per non-empty payload for B and C.
C3_SameBytesCountsByShape ==
    \A s \in ran :
        /\ hashed[s] = <<Cardinality(NonEmptyItems), BytesFrom(1)>>
        /\ s \in PerItem => Len(lats[s]) = Len(files)
        /\ s \in Batch => Len(lats[s]) = Cardinality(NonEmptyItems)

C3_Witness ==
    /\ pc = "summary"
    /\ Len(lats["A"]) = 2
    /\ Len(lats["B"]) = 1
    /\ Len(lats["C"]) = 1
    /\ Len(lats["D"]) = 2

\* C4: a strategy whose time is zero never makes the report raise: its
\* throughput is reported as undefined and the report goes on.
C4_ZeroTimeNeverRaises ==
    \A s \in ran : times[s] = 0 => error = "none"

\* C5: the process exits with code 1 exactly when the argument is missing,
\* the directory does not exist or a library is missing, and with 0 otherwise.
C5_ExitCodes ==
    pc = "exit" =>
        /\ exit_code \in {0, 1}
        /\ exit_code = 1 <=> (~hasArg \/ ~dirExists \/ ~HAS_RUST \/ ~HAS_XXHASH)

\* C6: with one hashing library missing, over an existing directory with
\* files, every strategy whose own library is present has still been run
\* when the process ends.
C6_MissingLibraryDegradesOnly ==
    (/\ pc = "exit"
     /\ hasArg
     /\ dirExists
     /\ files # <<>>
     /\ ~HAS_RUST \/ ~HAS_XXHASH)
    => \A s \in Strategies : Available(s) => s \in ran

\* C7: the latency list of a per-item run (A, D) has one entry per corpus
\* item, entry i comes from corpus item i, and an item whose payload is empty
\* or unreadable has the entry 0.
C7_LatenciesAligned ==
    \A s \in ran \cap PerItem :
        /\ Len(lats[s]) = Len(files)
        /\ \A i \in 1..Len(files) :
              /\ lats[s][i].of = files[i].path
              /\ PayloadOf(i) = Empty => lats[s][i].us = 0

C7_Witness ==
    /\ "A" \in ran
    /\ \E i, j \in 1..Len(files) :
          /\ PayloadOf(i) = Empty
          /\ lats["A"][j].us > 0

Comparing == pc \in {"call", "pool", "read", "batch", "print", "summary"}

\* main has passed the configuration of rayon (lines 182-188).
Configured ==
    \/ pc = "check_libs"
    \/ Comparing
    \/ pc = "exit" /\ hasArg /\ dirExists /\ files # <<>>

C9_ResultsInCorpusOrder ==
    /\ (pc = "batch" /\ cur = "C") => data_list = NonEmptyFrom(1)
    /\ \A s \in ran \cap PerItem :
          [i \in 1..Len(lats[s]) |-> lats[s][i].of]
              = [i \in 1..Len(files) |-> files[i].path]

C9_Witness ==
    /\ pc = "batch"
    /\ cur = "C"
    /\ order = <<2, 1>>
    /\ Len(data_list) = 2
    /\ "A" \in ran

====
